---- MODULE Spec2Model ----
(***************************************************************************)
(* A model of ZettlrBody (source/renderer/zettlr-body.js): the bounded     *)
(* list of recent documents, the lists of open quicklook windows and of    *)
(* notifications, and the popups that forward a user's answer over the     *)
(* IPC channel.  The renderer is single-threaded: a handler runs to        *)
(* completion before the next event is taken.  The two handlers that hold  *)
(* a while loop are modelled one iteration per step, with pc naming the    *)
(* loop the handler is in, so that their termination is a checked fact.    *)
(***************************************************************************)
EXTENDS Integers, Sequences, FiniteSets, TLC

\* ------------------------------------------------------------ bounds
MaxHash == 3            \* documents have the hashes 1..MaxHash
MaxCap == 3             \* capacities 1..MaxCap are tried beside the default
MaxSessionLen == 3      \* length of the scripted sessions tried exhaustively
MaxQuicklooks == 3      \* quicklook windows opened in one run
MaxNotifications == 3   \* notifications raised in one run
MaxMoveUps == 2         \* moveUp() calls one notification may receive
MaxPopups == 1          \* popups open at a time

\* ------------------------------------------------- program constants
DefaultNumRecentDocs == 10

Names == {"Notes", "Draft"}
Hashes == 1..MaxHash
\* A ZettlrFile as far as this class reads it.
Files == [hash : Hashes, name : Names]
\* null / undefined
Null == [type |-> "null"]

VARIABLES
  numRecentDocs,  \* this._numRecentDocs
  recentDocs,     \* this._recentDocs
  pc,             \* "idle", or the loop the running handler is in
  file,           \* the argument of the running addRecentDocument call
  ql,             \* this._ql: the open quicklook windows
  qlMade,         \* how many ZettlrQuicklook objects were constructed
  n,              \* this._n: the notifications on display
  nMade,          \* how many ZettlrNotification objects were constructed
  moveUps,        \* per notification, the moveUp() calls it has received
  popups,         \* the popups on display, each with what its callback holds
  last,           \* the handler that ran last: its argument, its result, the
                  \* messages it sent over global.ipc, the state it found
  session,        \* the scripted session being replayed (SessionSpec)
  done            \* how many calls of the session have been made

recentVars == <<numRecentDocs, recentDocs, file>>
overlayVars == <<ql, qlMade, n, nMade, moveUps>>
facadeVars == <<popups>>
sessionVars == <<session, done>>
vars == <<recentVars, overlayVars, facadeVars, sessionVars, pc, last>>

\* ------------------------------------------------------ Array helpers
\* Array.prototype.indexOf: the 0-based index of the first element equal
\* to x, or -1.
IndexOf(arr, x) ==
  IF \E i \in 1..Len(arr) : arr[i] = x
    THEN (CHOOSE i \in 1..Len(arr) :
            arr[i] = x /\ \A j \in 1..(i - 1) : arr[j] # x) - 1
    ELSE -1

\* arr.splice(index, 1) for a 0-based index inside the array.
Splice(arr, index) ==
  SubSeq(arr, 1, index) \o SubSeq(arr, index + 2, Len(arr))

ShiftKeeps(arr) == arr

\* pop() in the place of shift()
ShiftPops(arr) == IF arr = <<>> THEN <<>> ELSE SubSeq(arr, 1, Len(arr) - 1)

\* arr.shift(): drops the first element; an empty array stays empty.
Shift(arr) == IF arr = <<>> THEN <<>> ELSE Tail(arr)

\* ----------------------------------------------------- recent documents
\* this._recentDocs.find((elem) => elem.hash === file.hash)
Find(docs, f) ==
  IF \E i \in 1..Len(docs) : docs[i].hash = f.hash
    THEN docs[CHOOSE i \in 1..Len(docs) :
                docs[i].hash = f.hash /\ \A j \in 1..(i - 1) : docs[j].hash # f.hash]
    ELSE Null

MoveToEndKeepsPlace(docs, found) == docs

\* The found branch: splice the entry out and push it again.
MoveToEnd(docs, found) == Append(Splice(docs, IndexOf(docs, found)), found)

EvictCondOffByOne(docs, cap) == Len(docs) > cap

\* The condition of the eviction loop.
EvictCond(docs, cap) == Len(docs) > cap - 1

\* The entry pushed for a new document.
NewEntry(f) == [hash |-> f.hash, name |-> f.name]

\* the found branch pushes a record made from the file of the call
AddRecentDocumentRenames(f) ==
  /\ pc = "idle"
  /\ LET found == Find(recentDocs, f) IN
       IF found # Null
         THEN /\ recentDocs' = Append(Splice(recentDocs, IndexOf(recentDocs, found)),
                                      NewEntry(f))
              /\ pc' = "idle"
              /\ file' = Null
         ELSE /\ recentDocs' = recentDocs
              /\ pc' = "evict"
              /\ file' = f
  /\ last' = [op |-> "addRecentDocument", arg |-> f, before |-> recentDocs]
  /\ UNCHANGED <<numRecentDocs, overlayVars, facadeVars>>

\* addRecentDocument(file), up to the eviction loop.
AddRecentDocument(f) ==
  /\ pc = "idle"
  /\ LET found == Find(recentDocs, f) IN
       IF found # Null
         THEN /\ recentDocs' = MoveToEnd(recentDocs, found)
              /\ pc' = "idle"
              /\ file' = Null
         ELSE /\ recentDocs' = recentDocs
              /\ pc' = "evict"
              /\ file' = f
  /\ last' = [op |-> "addRecentDocument", arg |-> f, before |-> recentDocs]
  /\ UNCHANGED <<numRecentDocs, overlayVars, facadeVars>>

\* One iteration of while (length > _numRecentDocs - 1) shift().
AddEvict ==
  /\ pc = "evict"
  /\ EvictCond(recentDocs, numRecentDocs)
  /\ recentDocs' = Shift(recentDocs)
  /\ UNCHANGED <<numRecentDocs, pc, file, last, overlayVars, facadeVars, sessionVars>>

\* The loop is left and the new entry pushed.
AddPush ==
  /\ pc = "evict"
  /\ ~EvictCond(recentDocs, numRecentDocs)
  /\ recentDocs' = Append(recentDocs, NewEntry(file))
  /\ pc' = "idle"
  /\ file' = Null
  /\ UNCHANGED <<numRecentDocs, last, overlayVars, facadeVars, sessionVars>>

\* A document is opened: any file, at any time the renderer is idle.
OpenDocument == \E f \in Files : AddRecentDocument(f) /\ UNCHANGED sessionVars

\* ---------------------------------------------------- quicklook windows
\* Windows and notifications are objects; a number stands for each, given
\* in the order of construction.
Quicklooks == 1..MaxQuicklooks
Notifications == 1..MaxNotifications

\* quicklook(file): a new window is pushed.
Quicklook ==
  /\ pc = "idle"
  /\ qlMade < MaxQuicklooks
  /\ qlMade' = qlMade + 1
  /\ ql' = Append(ql, qlMade + 1)
  /\ last' = [op |-> "quicklook", arg |-> qlMade + 1]
  /\ UNCHANGED <<pc, n, nMade, moveUps, recentVars, facadeVars, sessionVars>>

QlspliceKeepsFront(list, zql) ==
  LET index == IndexOf(list, zql) IN
    IF index > 0
      THEN [ql |-> Splice(list, index), ret |-> TRUE]
      ELSE [ql |-> list, ret |-> FALSE]

QlspliceTrue(list, zql) ==
  LET index == IndexOf(list, zql) IN
    IF index > -1
      THEN [ql |-> Splice(list, index), ret |-> TRUE]
      ELSE [ql |-> list, ret |-> TRUE]

\* qlsplice(zql): the list afterwards and the value returned.
Qlsplice(list, zql) ==
  LET index == IndexOf(list, zql) IN
    IF index > -1
      THEN [ql |-> Splice(list, index), ret |-> TRUE]
      ELSE [ql |-> list, ret |-> FALSE]

\* ZettlrQuicklook.close(): the window takes itself out of the list before
\* close() returns.  The result is the list afterwards.
QuicklookClose(list, zql) == Qlsplice(list, zql).ql

\* A window is closed on its own (the user closes it, or it is closed a
\* second time) and calls qlsplice.
CloseWindow(zql) ==
  /\ pc = "idle"
  /\ zql <= qlMade
  /\ ql' = Qlsplice(ql, zql).ql
  /\ last' = [op |-> "qlsplice", arg |-> zql, before |-> ql,
              ret |-> Qlsplice(ql, zql).ret]
  /\ UNCHANGED <<pc, qlMade, n, nMade, moveUps, recentVars, facadeVars, sessionVars>>

\* closeQuicklook() is called.
CloseQuicklook ==
  /\ pc = "idle"
  /\ pc' = "closing"
  /\ last' = [op |-> "closeQuicklook", before |-> ql, closed |-> <<>>]
  /\ UNCHANGED <<overlayVars, recentVars, facadeVars, sessionVars>>

\* the last window is closed in the place of the first
CloseBack ==
  /\ pc = "closing"
  /\ Len(ql) > 0
  /\ ql' = QuicklookClose(ql, ql[Len(ql)])
  /\ last' = [last EXCEPT !.closed = Append(@, ql[Len(ql)])]
  /\ UNCHANGED <<pc, qlMade, n, nMade, moveUps, recentVars, facadeVars, sessionVars>>

\* One iteration of while (this._ql.length > 0) this._ql[0].close().
CloseFront ==
  /\ pc = "closing"
  /\ Len(ql) > 0
  /\ ql' = QuicklookClose(ql, ql[1])
  /\ last' = [last EXCEPT !.closed = Append(@, ql[1])]
  /\ UNCHANGED <<pc, qlMade, n, nMade, moveUps, recentVars, facadeVars, sessionVars>>

\* The loop is left: return this.
CloseReturn ==
  /\ pc = "closing"
  /\ ~(Len(ql) > 0)
  /\ pc' = "idle"
  /\ UNCHANGED <<last, overlayVars, recentVars, facadeVars, sessionVars>>

\* -------------------------------------------------------- notifications
\* notify(message): a new notification is pushed.
Notify ==
  /\ pc = "idle"
  /\ nMade < MaxNotifications
  /\ nMade' = nMade + 1
  /\ n' = Append(n, nMade + 1)
  /\ last' = [op |-> "notify", arg |-> nMade + 1]
  /\ UNCHANGED <<pc, ql, qlMade, moveUps, recentVars, facadeVars, sessionVars>>

Occurrences(list, x) == Cardinality({i \in 1..Len(list) : list[i] = x})

\* notifySplice(ntf), first statement: the list afterwards.
NotifySpliceList(list, ntf) ==
  LET index == IndexOf(list, ntf) IN
    IF index > -1 THEN Splice(list, index) ELSE list

MoveUpAllBeforeSplice(counts, list, ntf) ==
  [m \in Notifications |-> counts[m] + Occurrences(list, m)]

\* notifySplice(ntf), second statement: for (let msg of this._n) msg.moveUp()
\* on the list as it is then.
MoveUpAll(counts, list, ntf) ==
  [m \in Notifications |-> counts[m] + Occurrences(NotifySpliceList(list, ntf), m)]

\* A notification asks for its removal: when it has faded out, or a second
\* time after that.
NotifySplice(ntf) ==
  /\ pc = "idle"
  /\ ntf <= nMade
  /\ \A m \in Notifications : MoveUpAll(moveUps, n, ntf)[m] <= MaxMoveUps
  /\ n' = NotifySpliceList(n, ntf)
  /\ moveUps' = MoveUpAll(moveUps, n, ntf)
  /\ last' = [op |-> "notifySplice", arg |-> ntf, before |-> n,
              movedBefore |-> moveUps]
  /\ UNCHANGED <<pc, ql, qlMade, nMade, recentVars, facadeVars, sessionVars>>

\* --------------------------------------------------------------- popups
\* The directories and files the requests are made for.
ObjectHashes == {1, 42}
DirTypes == {"directory", "virtual-directory"}
Dirs == [hash : ObjectHashes, type : DirTypes]
Targets == [hash : ObjectHashes, name : Names]
NameRequests == {"requestFileName", "requestDirName", "requestVirtualDirName",
                 "requestNewDirName", "requestNewFileName"}
TargetModes == {"words", "chars"}
CountTexts == {"", "250"}

\* The lists and the popups as they are when a handler is entered.
Snapshot == [recentDocs |-> recentDocs, ql |-> ql, n |-> n, popups |-> popups]

\* return before anything was shown
Return(op, arg) ==
  /\ popups' = popups
  /\ last' = [op |-> op, arg |-> arg, threw |-> FALSE, sent |-> <<>>,
              before |-> Snapshot]

\* a property of null was read: TypeError, nothing was shown yet
Throw(op, arg) ==
  /\ popups' = popups
  /\ last' = [op |-> op, arg |-> arg, threw |-> TRUE, sent |-> <<>>,
              before |-> Snapshot]

\* popup(elem, cnt, callback): the popup is on display, its callback
\* holding p
Show(op, arg, p) ==
  /\ Len(popups) < MaxPopups
  /\ popups' = Append(popups, p)
  /\ last' = [op |-> op, arg |-> arg, threw |-> FALSE, sent |-> <<>>,
              before |-> Snapshot]

RequestFileName(dir) ==
  /\ pc = "idle"
  /\ IF dir = Null
       THEN Return("requestFileName", dir)
       ELSE IF dir.type # "directory"
         THEN Return("requestFileName", dir)
         ELSE Show("requestFileName", dir, [op |-> "requestFileName", hash |-> dir.hash])
  /\ UNCHANGED <<pc, recentVars, overlayVars, sessionVars>>

RequestDirName(dir) ==
  /\ pc = "idle"
  /\ IF dir = Null
       THEN Return("requestDirName", dir)
       ELSE IF dir.type # "directory"
         THEN Return("requestDirName", dir)
         ELSE Show("requestDirName", dir, [op |-> "requestDirName", hash |-> dir.hash])
  /\ UNCHANGED <<pc, recentVars, overlayVars, sessionVars>>

RequestVirtualDirName(dir) ==
  /\ pc = "idle"
  /\ IF dir = Null
       THEN Return("requestVirtualDirName", dir)
       ELSE Show("requestVirtualDirName", dir,
                 [op |-> "requestVirtualDirName", hash |-> dir.hash])
  /\ UNCHANGED <<pc, recentVars, overlayVars, sessionVars>>

\* No test of dir: dir.hash is read first.
RequestNewDirName(dir) ==
  /\ pc = "idle"
  /\ IF dir = Null
       THEN Throw("requestNewDirName", dir)
       ELSE Show("requestNewDirName", dir, [op |-> "requestNewDirName", hash |-> dir.hash])
  /\ UNCHANGED <<pc, recentVars, overlayVars, sessionVars>>

\* No test of file: file.hash is read on either side of the test of the
\* current file cur (this._renderer.getCurrentFile()), which decides only
\* the element the popup is anchored to.
RequestNewFileName(f, cur) ==
  /\ pc = "idle"
  /\ IF f = Null
       THEN Throw("requestNewFileName", f)
       ELSE Show("requestNewFileName", f, [op |-> "requestNewFileName", hash |-> f.hash])
  /\ UNCHANGED <<pc, recentVars, overlayVars, sessionVars>>

\* setTarget(hash); found is what this._renderer.findObject(hash) gave.
SetTarget(hash, found) ==
  /\ pc = "idle"
  /\ IF found = Null
       THEN Return("setTarget", found)
       ELSE Show("setTarget", found, [op |-> "setTarget", hash |-> hash])
  /\ UNCHANGED <<pc, recentVars, overlayVars, sessionVars>>

\* displayFind(); cur is what this._renderer.getCurrentFile() gave.
DisplayFind(cur) ==
  /\ pc = "idle"
  /\ IF cur = Null
       THEN Return("displayFind", cur)
       ELSE Show("displayFind", cur, [op |-> "displayFind"])
  /\ UNCHANGED <<pc, recentVars, overlayVars, sessionVars>>

ChannelRenameMixedUp(op) ==
  CASE op = "requestFileName" -> "file-new"
    [] op = "requestDirName" -> "dir-new"
    [] op = "requestVirtualDirName" -> "dir-new-vd"
    [] op = "requestNewDirName" -> "dir-rename"
    [] op = "requestNewFileName" -> "dir-rename"

\* The channel each request's callback sends on.
Channel(op) ==
  CASE op = "requestFileName" -> "file-new"
    [] op = "requestDirName" -> "dir-new"
    [] op = "requestVirtualDirName" -> "dir-new-vd"
    [] op = "requestNewDirName" -> "dir-rename"
    [] op = "requestNewFileName" -> "file-rename"

\* parseInt of the text of the count field
ParseInt(text) == IF text = "250" THEN 250 ELSE "NaN"

\* What a form can hold when the popup p is submitted.  The callback of the
\* find popup does not read what it is given.
Forms(p) ==
  IF p.op \in NameRequests THEN [value : Names]
  ELSE IF p.op = "setTarget" THEN [count : CountTexts, mode : TargetModes]
  ELSE {[value |-> "Notes"]}

\* The callback of popup p called with form (Null when the popup was
\* dismissed): the messages it sends.
Callback(p, form) ==
  IF p.op \in NameRequests
    THEN IF form # Null
      THEN <<[channel |-> Channel(p.op), name |-> form.value, hash |-> p.hash]>>
      ELSE <<>>
  ELSE IF p.op = "setTarget"
    THEN IF form # Null
      THEN <<[channel |-> "set-target", hash |-> p.hash, mode |-> form.mode,
              count |-> ParseInt(form.count)]>>
      ELSE <<>>
  ELSE <<>>

\* The popup at place i is closed: its callback is called once, with the
\* form when the user submitted it and with undefined when the user
\* dismissed it, and the popup is gone.
PopupClose(i, form) ==
  /\ pc = "idle"
  /\ i \in 1..Len(popups)
  /\ popups' = Splice(popups, i - 1)
  /\ last' = [op |-> IF form = Null THEN "popupDismiss" ELSE "popupSubmit",
              popup |-> popups[i], form |-> form,
              sent |-> Callback(popups[i], form), before |-> Snapshot]
  /\ UNCHANGED <<pc, recentVars, overlayVars, sessionVars>>

PopupSubmit == \E i \in 1..Len(popups) : \E form \in Forms(popups[i]) : PopupClose(i, form)
PopupDismiss == \E i \in 1..Len(popups) : PopupClose(i, Null)


\* ----------------------------------------------------------- sessions
Doc(h) == [hash |-> h, name |-> "Notes"]
SeqsUpTo(S, k) == UNION {[1..m -> S] : m \in 0..k}
\* D1..D11 opened in order with the default capacity.
SessionEleven == [capacity |-> DefaultNumRecentDocs,
                  files |-> [i \in 1..(DefaultNumRecentDocs + 1) |-> Doc(i)]]
\* A, B, C, A, D with capacity 3.
SessionABCAD == [capacity |-> 3, files |-> <<Doc(1), Doc(2), Doc(3), Doc(1), Doc(4)>>]
Sessions ==
  {SessionEleven, SessionABCAD}
    \cup [capacity : 1..MaxCap, files : SeqsUpTo(Files, MaxSessionLen)]
NoSession == [capacity |-> 0, files |-> <<>>]

\* The next call of the scripted session.
OpenNext ==
  /\ done < Len(session.files)
  /\ AddRecentDocument(session.files[done + 1])
  /\ done' = done + 1
  /\ UNCHANGED session

\* ------------------------------------------------------ specifications
Capacities == (1..MaxCap) \cup {DefaultNumRecentDocs}

InitBody ==
  /\ recentDocs = <<>>
  /\ pc = "idle"
  /\ file = Null
  /\ last = [op |-> "constructor"]
  /\ ql = <<>>
  /\ qlMade = 0
  /\ n = <<>>
  /\ nMade = 0
  /\ moveUps = [m \in Notifications |-> 0]
  /\ popups = <<>>

\* The state the constructor leaves.
Init ==
  /\ InitBody
  /\ numRecentDocs = DefaultNumRecentDocs
  /\ session = NoSession
  /\ done = 0

\* The same with another capacity configured.
InitCapacity ==
  /\ InitBody
  /\ numRecentDocs \in Capacities
  /\ session = NoSession
  /\ done = 0

InitSession ==
  /\ InitBody
  /\ session \in Sessions
  /\ numRecentDocs = session.capacity
  /\ done = 0

\* The steps of a handler that is running: the event loop does not stop
\* a handler half way.
Running == AddEvict \/ AddPush \/ CloseFront \/ CloseReturn

NextRecent == OpenDocument \/ AddEvict \/ AddPush
RecentSpec == InitCapacity /\ [][NextRecent]_vars /\ WF_vars(Running)

NextSession == OpenNext \/ AddEvict \/ AddPush
SessionSpec == InitSession /\ [][NextSession]_vars /\ WF_vars(Running)

NextOverlay ==
  \/ Quicklook
  \/ \E zql \in Quicklooks : CloseWindow(zql)
  \/ CloseQuicklook
  \/ CloseFront
  \/ CloseReturn
  \/ Notify
  \/ \E ntf \in Notifications : NotifySplice(ntf)
OverlaySpec == Init /\ [][NextOverlay]_vars /\ WF_vars(Running)

NextFacade ==
  \/ \E dir \in Dirs \cup {Null} : RequestFileName(dir)
  \/ \E dir \in Dirs \cup {Null} : RequestDirName(dir)
  \/ \E dir \in Dirs \cup {Null} : RequestVirtualDirName(dir)
  \/ \E dir \in Dirs \cup {Null} : RequestNewDirName(dir)
  \/ \E f \in Targets \cup {Null} : \E cur \in Targets \cup {Null} :
        RequestNewFileName(f, cur)
  \/ \E hash \in ObjectHashes : \E found \in {Doc(hash), Null} : SetTarget(hash, found)
  \/ \E cur \in Targets \cup {Null} : DisplayFind(cur)
  \/ PopupSubmit
  \/ PopupDismiss
  \/ Quicklook
  \/ Notify
FacadeSpec == Init /\ [][NextFacade]_vars /\ WF_vars(Running)

\* The whole class.  The three parts share pc and last alone, so each claim
\* is checked under the specification of the part it is about.
Next == NextRecent \/ NextOverlay \/ NextFacade
Spec == Init /\ [][Next]_vars /\ WF_vars(Running)

\* The configured capacity is arbitrary, zero included.
InitAnyCapacity ==
  /\ InitBody
  /\ numRecentDocs \in (0..MaxCap) \cup {DefaultNumRecentDocs}
  /\ session = NoSession
  /\ done = 0

AnyCapacitySpec == InitAnyCapacity /\ [][NextRecent]_vars /\ WF_vars(Running)

\* ------------------------------------------------------------- claims
HashesOf(docs) == {docs[i].hash : i \in 1..Len(docs)}
HasHash(docs, h) == h \in HashesOf(docs)
\* docs without the entries of hash h, order kept
WithoutHash(docs, h) == SelectSeq(docs, LAMBDA e : e.hash # h)
\* an addRecentDocument call has returned, and it was the last handler to run
Added == pc = "idle" /\ last.op = "addRecentDocument"
AddedNew == Added /\ ~HasHash(last.before, last.arg.hash)
AddedKnown == Added /\ HasHash(last.before, last.arg.hash)

C2_EvictsFront ==
  /\ (AddedNew /\ Len(last.before) = numRecentDocs) =>
        /\ Len(recentDocs) = numRecentDocs
        /\ \A i \in 1..(numRecentDocs - 1) : recentDocs[i] = last.before[i + 1]
        /\ recentDocs[numRecentDocs].hash = last.arg.hash
        /\ recentDocs[numRecentDocs].name = last.arg.name
  /\ (AddedNew /\ Len(last.before) < numRecentDocs) =>
        /\ Len(recentDocs) = Len(last.before) + 1
        /\ \A i \in 1..Len(last.before) : recentDocs[i] = last.before[i]
        /\ recentDocs[Len(recentDocs)].hash = last.arg.hash
        /\ recentDocs[Len(recentDocs)].name = last.arg.name
  /\ (session = SessionEleven /\ done = Len(session.files) /\ pc = "idle") =>
        recentDocs = [i \in 1..DefaultNumRecentDocs |-> Doc(i + 1)]
  /\ (session = SessionABCAD /\ done = 4 /\ pc = "idle") =>
        recentDocs = <<Doc(2), Doc(3), Doc(1)>>
  /\ (session = SessionABCAD /\ done = 5 /\ pc = "idle") =>
        recentDocs = <<Doc(3), Doc(1), Doc(4)>>

\* The eleventh document has been opened with capacity 10.
C2_Witness ==
  /\ session = SessionEleven
  /\ done = Len(session.files)
  /\ AddedNew
  /\ Len(last.before) = numRecentDocs

\* C3: a call with a hash that is in the list makes that entry the last
\* one; the size is unchanged, nothing is evicted and the other entries keep
\* their order.
C3_KnownMovesToEnd ==
  AddedKnown =>
    /\ Len(recentDocs) = Len(last.before)
    /\ recentDocs[Len(recentDocs)].hash = last.arg.hash
    /\ HashesOf(recentDocs) = HashesOf(last.before)
    /\ SubSeq(recentDocs, 1, Len(recentDocs) - 1)
         = WithoutHash(last.before, last.arg.hash)

\* The front entry of a list of three was opened again.
C3_Witness ==
  /\ AddedKnown
  /\ Len(last.before) >= 3
  /\ last.before[1].hash = last.arg.hash
  /\ recentDocs # last.before

Elems(list) == {list[i] : i \in 1..Len(list)}
\* list without x, order kept
Without(list, x) == SelectSeq(list, LAMBDA e : e # x)

\* C4: closeQuicklook terminates and leaves _ql empty, however many windows
\* are open, each window's close() calling qlsplice on itself before it
\* returns: the loop is left, every iteration takes one window out of the
\* list, and the list is empty when the call has returned.
C4_CloseQuicklookTerminates ==
  /\ (pc = "closing") ~> (pc = "idle")
  /\ [](last.op = "closeQuicklook" =>
          Len(ql) + Len(last.closed) = Len(last.before))
  /\ [](pc = "idle" /\ last.op = "closeQuicklook" => ql = <<>>)

\* closeQuicklook has returned after closing three windows.
C4_Witness ==
  /\ pc = "idle"
  /\ last.op = "closeQuicklook"
  /\ Len(last.before) >= 3
  /\ ql = <<>>

\* C5: notifySplice called with a notification of the list takes it out of
\* the list; every notification that remains receives exactly one moveUp
\* and the removed one receives none.
C5_RemainingMoveUpOnce ==
  (last.op = "notifySplice" /\ last.arg \in Elems(last.before)) =>
    /\ n = Without(last.before, last.arg)
    /\ Len(n) = Len(last.before) - 1
    /\ \A m \in Elems(n) : moveUps[m] = last.movedBefore[m] + 1
    /\ \A m \in Notifications \ Elems(n) : moveUps[m] = last.movedBefore[m]

\* The second of three notifications was removed.
C5_Witness ==
  /\ last.op = "notifySplice"
  /\ Len(last.before) >= 3
  /\ last.arg = last.before[2]
  /\ Len(n) = 2

\* C6: qlsplice and notifySplice called with a handle that is not in the
\* list leave the list as it was; qlsplice then returns false, and it
\* returns true only when it removed the handle.
C6_UnknownHandleNoOp ==
  /\ (last.op = "qlsplice" /\ last.arg \notin Elems(last.before)) =>
        ql = last.before /\ last.ret = FALSE
  /\ (last.op = "qlsplice" /\ last.ret = TRUE) =>
        /\ last.arg \in Elems(last.before)
        /\ last.arg \notin Elems(ql)
        /\ ql = Without(last.before, last.arg)
  /\ (last.op = "notifySplice" /\ last.arg \notin Elems(last.before)) =>
        n = last.before

\* A window that was already gone was closed again, others being open.
C6_Witness ==
  /\ last.op = "qlsplice"
  /\ last.arg \notin Elems(last.before)
  /\ last.ret = FALSE
  /\ Len(ql) >= 2

\* C10: notifySplice called with a notification that was already removed
\* changes nothing: the list is as it was and no notification receives a
\* moveUp.
C10_DuplicateRemovalNoOp ==
  (last.op = "notifySplice" /\ last.arg \notin Elems(last.before)) =>
    /\ n = last.before
    /\ moveUps = last.movedBefore

\* The channel the claim gives for each request.
C7_ChannelOf == [requestFileName |-> "file-new", requestDirName |-> "dir-new",
                 requestVirtualDirName |-> "dir-new-vd",
                 requestNewDirName |-> "dir-rename",
                 requestNewFileName |-> "file-rename"]

\* C7: a name request that shows its popup binds it to the hash of its
\* directory or file; when the popup is submitted exactly one message is
\* sent, on the request's own channel, with the submitted name and that
\* hash; when the popup is dismissed nothing is sent.
C7_OneMessageOnSubmit ==
  /\ (last.op \in NameRequests /\ popups # last.before.popups) =>
        /\ last.arg # Null
        /\ popups = Append(last.before.popups, [op |-> last.op, hash |-> last.arg.hash])
        /\ last.sent = <<>>
  /\ (last.op = "popupSubmit" /\ last.popup.op \in NameRequests) =>
        last.sent = <<[channel |-> C7_ChannelOf[last.popup.op],
                       name |-> last.form.value,
                       hash |-> last.popup.hash]>>
  /\ (last.op = "popupDismiss") => last.sent = <<>>

\* File 42 was renamed to "Notes": one file-rename message.
C7_Witness ==
  /\ last.op = "popupSubmit"
  /\ last.popup.op = "requestNewFileName"
  /\ last.sent = <<[channel |-> "file-rename", name |-> "Notes", hash |-> 42]>>
  /\ popups = <<>>

\* The calls whose precondition is not met.
PreconditionNotMet ==
  \/ last.op \in NameRequests /\ last.arg = Null
  \/ last.op \in {"requestFileName", "requestDirName"}
       /\ last.arg # Null /\ last.arg.type # "directory"
  \/ last.op = "setTarget" /\ last.arg = Null
  \/ last.op = "displayFind" /\ last.arg = Null

\* C8: a facade operation called when its precondition is not met raises
\* no error, shows no popup, sends no message and changes none of the three
\* lists.
C8_SilentNoOp ==
  PreconditionNotMet =>
    /\ ~last.threw
    /\ popups = last.before.popups
    /\ last.sent = <<>>
    /\ recentDocs = last.before.recentDocs
    /\ ql = last.before.ql
    /\ n = last.before.n

\* C11: closeQuicklook closes the windows front to back.  The windows are
\* in _ql in the order they were created; close() is called on them in that
\* order, the window closed at each step being the front of _ql as it is
\* then, and when the call has returned close() was called exactly once on
\* every window that was open.
C11_ClosesFrontToBack ==
  /\ \A i, j \in 1..Len(ql) : i < j => ql[i] < ql[j]
  /\ last.op = "closeQuicklook" =>
       /\ last.closed = SubSeq(last.before, 1, Len(last.closed))
       /\ ql = SubSeq(last.before, Len(last.closed) + 1, Len(last.before))
       /\ \A i, j \in 1..Len(last.closed) :
            last.closed[i] = last.closed[j] => i = j
       /\ pc = "idle" => last.closed = last.before

\* closeQuicklook has returned; it found two or more windows, the first
\* window ever opened having been closed before.
C11_Witness ==
  /\ pc = "idle"
  /\ last.op = "closeQuicklook"
  /\ Len(last.closed) >= 2
  /\ last.closed = last.before
  /\ last.closed[1] # 1

\* C12: a call with a hash that is in the list moves the stored record to
\* the end and ignores the name it was given.  A record enters the list
\* only when its hash is new, with the name of that call, and no call
\* alters a record: the list shows for every hash the name of the call that
\* inserted it.
C12_StoredNameKept ==
  /\ AddedKnown =>
       /\ \E i \in 1..Len(last.before) :
            /\ last.before[i].hash = last.arg.hash
            /\ recentDocs[Len(recentDocs)] = last.before[i]
       /\ Elems(recentDocs) = Elems(last.before)
  /\ Added =>
       \A i \in 1..Len(recentDocs) :
         \/ recentDocs[i] \in Elems(last.before)
         \/ /\ ~HasHash(last.before, last.arg.hash)
            /\ i = Len(recentDocs)
            /\ recentDocs[i].hash = last.arg.hash
            /\ recentDocs[i].name = last.arg.name

\* A document of the list was opened again under another name.
C12_Witness ==
  /\ AddedKnown
  /\ Len(recentDocs) >= 2
  /\ recentDocs[Len(recentDocs)].hash = last.arg.hash
  /\ recentDocs[Len(recentDocs)].name # last.arg.name

====
